---- MODULE Spec2Model ----
(***************************************************************************)
(* A model of the napari reader plugin ome_zarr.py: napari_get_reader,     *)
(* the store accessors BaseZarr / LocalZarr / RemoteZarr and the reader    *)
(* function they hand out.                                                 *)
(*                                                                         *)
(* Representation.  A Python string is the sequence of its pieces (single  *)
(* characters where the code slices it, path tokens for paths and URLs).   *)
(* A JSON value is a record [t, k, v]: t its type, k the keys of an object *)
(* in document order, v its payload (object values, array items, a         *)
(* string's characters, <<n>> for a number, <<b>> for a boolean).          *)
(* A Python call that may raise yields [ok, exc, val].                     *)
(***************************************************************************)
EXTENDS Integers, Sequences, FiniteSets, TLC

VARIABLES
    store,       \* what the file system / the HTTP server holds per document
    path,        \* the argument napari_get_reader was called with
    pc,          \* position in napari_get_reader and BaseZarr.__init__
    variant,     \* "LocalZarr" or "RemoteZarr" once the instance is built
    zarr_path,   \* self.zarr_path
    zarray,      \* self.zarray
    zgroup,      \* self.zgroup
    image_data,  \* self.image_data
    root_attrs,  \* self.root_attrs
    fetches,     \* the get_json calls made so far, in order
    result,      \* what napari_get_reader gave back
    calls        \* the calls of the handed-out reader function, in order

vars == <<store, path, pc, variant, zarr_path, zarray, zgroup, image_data,
          root_attrs, fetches, result, calls>>

----------------------------------------------------------------------------
(* Bounds *)

\* how many times the host calls the reader function it was handed
MaxCalls == 2

----------------------------------------------------------------------------
(* JSON values and Python results *)

Obj(keys, vals) == [t |-> "obj", k |-> keys, v |-> vals]
Arr(items) == [t |-> "arr", k |-> <<>>, v |-> items]
Str(chars) == [t |-> "str", k |-> <<>>, v |-> chars]
Num(n) == [t |-> "num", k |-> <<>>, v |-> <<n>>]
Bool(b) == [t |-> "bool", k |-> <<>>, v |-> <<b>>]
Null == [t |-> "null", k |-> <<>>, v |-> <<>>]
\* an instance attribute that was never assigned
Unset == [t |-> "unset", k |-> <<>>, v |-> <<>>]
EmptyObj == Obj(<<>>, <<>>)

Ok(x) == [ok |-> TRUE, exc |-> "", val |-> x]
Raise(e) == [ok |-> FALSE, exc |-> e, val |-> Null]

S_multiscales == <<"m", "u", "l", "t", "i", "s", "c", "a", "l", "e", "s">>
S_greyscale == <<"g", "r", "e", "y", "s", "c", "a", "l", "e">>
S_color == <<"c", "o", "l", "o", "r">>

\* bool(x)
PyTruth(x) ==
    CASE x.t = "obj" -> Len(x.k) > 0
      [] x.t = "arr" -> Len(x.v) > 0
      [] x.t = "str" -> Len(x.v) > 0
      [] x.t = "num" -> x.v[1] # 0
      [] x.t = "bool" -> x.v[1]
      [] OTHER -> FALSE

HasKey(x, key) == \E i \in 1..Len(x.k) : x.k[i] = key

Lookup(x, key) == x.v[CHOOSE i \in 1..Len(x.k) : x.k[i] = key]

\* x[key] for a string key
PyGetItem(x, key) ==
    IF x.t = "obj"
    THEN IF HasKey(x, key) THEN Ok(Lookup(x, key)) ELSE Raise("KeyError")
    ELSE Raise("TypeError")

\* x[0]; the keys of a parsed JSON object are strings, so 0 is never one
PyGetIndex0(x) ==
    CASE x.t = "arr" -> IF Len(x.v) > 0 THEN Ok(x.v[1]) ELSE Raise("IndexError")
      [] x.t = "str" -> IF Len(x.v) > 0 THEN Ok(Str(<<x.v[1]>>))
                                         ELSE Raise("IndexError")
      [] x.t = "obj" -> Raise("KeyError")
      [] OTHER -> Raise("TypeError")

IsSubstring(sub, s) ==
    \E i \in 0..(Len(s) - Len(sub)) : SubSeq(s, i + 1, i + Len(sub)) = sub

\* key in x, for the string key whose characters are chars
PyIn(key, chars, x) ==
    CASE x.t = "obj" -> Ok(HasKey(x, key))
      [] x.t = "arr" -> Ok(\E i \in 1..Len(x.v) : x.v[i] = Str(chars))
      [] x.t = "str" -> Ok(IsSubstring(chars, x.v))
      [] OTHER -> Raise("TypeError")

\* the items "for d in x" visits: a list's items, a dict's keys, a string's
\* characters (a key is kept as a one-piece string)
PyIter(x) ==
    CASE x.t = "arr" -> Ok(x.v)
      [] x.t = "obj" -> Ok([i \in 1..Len(x.k) |-> Str(<<x.k[i]>>)])
      [] x.t = "str" -> Ok([i \in 1..Len(x.v) |-> Str(<<x.v[i]>>)])
      [] OTHER -> Raise("TypeError")

Min(a, b) == IF a < b THEN a ELSE b

\* x[lo:hi]
PySlice(x, lo, hi) ==
    CASE x.t = "str" -> Ok(Str(SubSeq(x.v, lo + 1, Min(hi, Len(x.v)))))
      [] x.t = "arr" -> Ok(Arr(SubSeq(x.v, lo + 1, Min(hi, Len(x.v)))))
      [] OTHER -> Raise("TypeError")

HexUpper == <<"0", "1", "2", "3", "4", "5", "6", "7", "8", "9",
              "A", "B", "C", "D", "E", "F">>
HexLower == <<"0", "1", "2", "3", "4", "5", "6", "7", "8", "9",
              "a", "b", "c", "d", "e", "f">>

IsHexDigit(c) == \E i \in 1..Len(HexUpper) : HexUpper[i] = c \/ HexLower[i] = c

HexDigitValue(c) ==
    (CHOOSE i \in 1..Len(HexUpper) : HexUpper[i] = c \/ HexLower[i] = c) - 1

RECURSIVE HexFold(_, _)
HexFold(chars, acc) ==
    IF chars = <<>> THEN acc
    ELSE HexFold(Tail(chars), acc * Len(HexUpper) + HexDigitValue(Head(chars)))

\* int(x, 16): an optional sign, then one or more hex digits
PyIntBase16(x) ==
    IF x.t # "str" THEN Raise("TypeError")
    ELSE LET signed == Len(x.v) > 0 /\ x.v[1] \in {"+", "-"}
             digits == IF signed THEN Tail(x.v) ELSE x.v
             sign == IF signed /\ x.v[1] = "-" THEN -1 ELSE 1
         IN IF digits = <<>> \/ \E i \in 1..Len(digits) : ~IsHexDigit(digits[i])
            THEN Raise("ValueError")
            ELSE Ok(sign * HexFold(digits, 0))

\* str(x) as an f-string inserts it
PyFormat(x) ==
    CASE x.t = "str" -> x.v
      [] x.t = "num" -> <<ToString(x.v[1])>>
      [] x.t = "bool" -> IF x.v[1] THEN <<"True">> ELSE <<"False">>
      [] x.t = "null" -> <<"None">>
      [] x.t = "arr" -> <<"[...]">>
      [] OTHER -> <<"{...}">>

----------------------------------------------------------------------------
(* urlparse and the store reference *)

SchemeLower(s) ==
    CASE s = "FILE" -> "file"
      [] s = "HTTPS" -> "https"
      [] OTHER -> s

\* urlparse(p): a leading "scheme :" pair is the scheme, lower-cased; after
\* "//" the pieces up to the next "/" are the netloc; the rest is the path
urlparse(p) ==
    LET hasScheme == Len(p) >= 2 /\ p[2] = ":" /\ p[1] \notin {":", "//", "/"}
        rest == IF hasScheme THEN SubSeq(p, 3, Len(p)) ELSE p
        hasNetloc == Len(rest) >= 1 /\ rest[1] = "//"
        afterSlashes == IF hasNetloc THEN Tail(rest) ELSE rest
        netlocLen == IF hasNetloc
                     THEN IF \E i \in 1..Len(afterSlashes) : afterSlashes[i] = "/"
                          THEN (CHOOSE i \in 1..Len(afterSlashes) :
                                    /\ afterSlashes[i] = "/"
                                    /\ \A j \in 1..(i - 1) : afterSlashes[j] # "/") - 1
                          ELSE Len(afterSlashes)
                     ELSE 0
    IN [scheme |-> IF hasScheme THEN SchemeLower(p[1]) ELSE "",
        netloc |-> SubSeq(afterSlashes, 1, netlocLen),
        path |-> SubSeq(afterSlashes, netlocLen + 1, Len(afterSlashes))]

\* path.endswith("/") and path or f"{path}/"
NormalizePath(p) ==
    IF Len(p) > 0 /\ p[Len(p)] = "/" THEN p ELSE p \o <<"/">>

\* "if isinstance(path, list): path = path[0]"
FirstPath(arg) == arg.strs[1]

----------------------------------------------------------------------------
(* The documents a store may hold *)

NotJson == [is_json |-> FALSE, json |-> Null]
Json(x) == [is_json |-> TRUE, json |-> x]

\* exists / text: the local file; reachable / status_code / text: the answer
\* of the HTTP server
Resource(exists, reachable, status_code, text) ==
    [exists |-> exists, reachable |-> reachable,
     status_code |-> status_code, text |-> text]

ErrorDoc == Obj(<<"error">>, <<Str(<<"NoSuchKey">>)>>)

Missing403 == Resource(FALSE, TRUE, 403, NotJson)
Missing403Json == Resource(FALSE, TRUE, 403, Json(ErrorDoc))
Missing404 == Resource(FALSE, TRUE, 404, NotJson)
Missing404Json == Resource(FALSE, TRUE, 404, Json(ErrorDoc))
Corrupt == Resource(TRUE, TRUE, 200, NotJson)
Unreachable == Resource(FALSE, FALSE, 200, NotJson)
Present(x) == Resource(TRUE, TRUE, 200, Json(x))

ZarrFormat == Obj(<<"zarr_format">>, <<Num(2)>>)

ZarrayPool ==
    << Missing403, Missing404Json, Corrupt, Unreachable,
       Present(EmptyObj), Present(ZarrFormat) >>

ZgroupPool ==
    << Missing403Json, Corrupt, Present(Arr(<<>>)), Present(ZarrFormat) >>

Window(s, e) == Obj(<<"start", "end">>, <<Num(s), Num(e)>>)

Channel(color, window, label, active) ==
    Obj(<<"color", "window", "label", "active">>,
        <<color, window, label, active>>)

Without(x, key) ==
    LET keep == SelectSeq([i \in 1..Len(x.k) |-> i], LAMBDA i : x.k[i] # key)
    IN Obj([i \in 1..Len(keep) |-> x.k[keep[i]]],
           [i \in 1..Len(keep) |-> x.v[keep[i]]])

Red == Channel(Str(<<"F", "F", "0", "0", "0", "0">>), Window(0, 255),
               Str(<<"R">>), Bool(TRUE))
Teal == Channel(Str(<<"0", "0", "8", "0", "f", "f">>), Window(10, 4095),
                Str(<<"G">>), Bool(FALSE))

Rdefs(model) == Obj(<<"model">>, <<Str(model)>>)

Omero(channels, rdefs) == Obj(<<"channels", "rdefs">>, <<channels, rdefs>>)

WithColor(ch, chars) == Channel(Str(chars), Lookup(ch, "window"),
                                Lookup(ch, "label"), Lookup(ch, "active"))

OmeroPool ==
    << Missing403, Missing404Json, Corrupt,
       Present(Arr(<<>>)),
       Present(Omero(Arr(<<Red>>), Rdefs(S_color))),
       Present(Omero(Arr(<<Red, Teal>>), Rdefs(S_color))),
       Present(Omero(Arr(<<Red, Teal>>), Rdefs(S_greyscale))),
       Present(Obj(<<"channels">>, <<Arr(<<>>)>>)),
       Present(Obj(<<"channels">>, <<Arr(<<Red>>)>>)),
       Present(Omero(Null, Rdefs(S_color))),
       Present(Omero(Arr(<<Without(Red, "color")>>), Rdefs(S_color))),
       Present(Omero(Arr(<<Without(Red, "window")>>), Rdefs(S_color))),
       Present(Omero(Arr(<<Red, Without(Teal, "label")>>), Rdefs(S_color))),
       Present(Omero(Arr(<<Without(Red, "active"), Teal>>), Rdefs(S_greyscale))),
       Present(Omero(Arr(<<WithColor(Red, <<"G", "G", "0", "0", "0", "0">>)>>),
                     Rdefs(S_color))),
       Present(Omero(Arr(<<Red, WithColor(Teal, <<"F", "F">>)>>), Rdefs(S_color))),
       Present(Omero(Arr(<<WithColor(Red, <<"+", "F", "0", "0", "0", "0">>)>>),
                     Rdefs(S_color))),
       Present(Omero(Arr(<<Channel(Num(255), Window(0, 1), Str(<<"R">>), Bool(TRUE))>>),
                     Rdefs(S_color))),
       Present(Omero(Arr(<<Channel(Lookup(Red, "color"), Str(<<"w">>),
                                  Str(<<"R">>), Bool(TRUE))>>),
                     Rdefs(S_color))) >>

Dataset(p) == Obj(<<"path">>, <<p>>)

Multiscales(ms) == Obj(<<"multiscales">>, <<ms>>)

Datasets(ds) == Multiscales(Arr(<<Obj(<<"datasets">>, <<ds>>)>>))

ZattrsPool ==
    << Missing403, Missing404, Corrupt,
       Present(Obj(<<"creator">>, <<Str(<<"x">>)>>)),
       Present(Datasets(Arr(<<Dataset(Str(<<"0">>))>>))),
       Present(Datasets(Arr(<<Dataset(Str(<<"0">>)), Dataset(Str(<<"1">>))>>))),
       Present(Datasets(Arr(<<Dataset(Str(<<"s", "2">>)), Dataset(Num(0))>>))),
       Present(Datasets(Arr(<<>>))),
       Present(Datasets(EmptyObj)),
       Present(Datasets(Null)),
       Present(Datasets(Arr(<<Dataset(Str(<<"0">>)), EmptyObj>>))),
       Present(Datasets(Arr(<<Str(<<"0">>)>>))),
       Present(Multiscales(Arr(<<>>))),
       Present(Multiscales(Null)),
       Present(Multiscales(Arr(<<Obj(<<"version">>, <<Str(<<"0", ".", "1">>)>>)>>))),
       Present(Multiscales(Arr(<<Arr(<<>>)>>))) >>

LocalNoSlash == <<"/", "data", "/", "img.zarr">>
LocalSlash == <<"/", "data", "/", "img.zarr", "/">>
FileUrl == <<"FILE", ":", "//", "/", "data", "/", "img.zarr">>
RemoteSlash == <<"https", ":", "//", "s3.host", "/", "idr", "/", "img.zarr", "/">>
RemoteNoSlash == <<"https", ":", "//", "s3.host", "/", "idr", "/", "img.zarr">>

StrArg(s) == [is_list |-> FALSE, strs |-> <<s>>]
ListArg(ss) == [is_list |-> TRUE, strs |-> ss]

\* the PathLike arguments tried: a string, or a list whose first item is used
PathPool ==
    << StrArg(LocalNoSlash), StrArg(FileUrl), StrArg(RemoteSlash),
       ListArg(<<RemoteNoSlash, LocalSlash>>),
       ListArg(<<LocalSlash, RemoteSlash>>) >>

\* the arguments the host passes to the reader function
CallArgPool == << StrArg(LocalSlash), ListArg(<<RemoteNoSlash, LocalSlash>>) >>

----------------------------------------------------------------------------
(* The metadata fetchers *)

\* json.loads(text) / rsp.json()
json_loads(text) ==
    IF text.is_json THEN Ok(text.json) ELSE Raise("JSONDecodeError")

\* LocalZarr.get_json with the parse wrapped in the remote variant's try
LocalZarr_get_json_lenient(res) ==
    IF ~res.exists THEN Ok(EmptyObj)
    ELSE LET parsed == json_loads(res.text)
         IN IF parsed.ok THEN parsed ELSE Ok(EmptyObj)

LocalZarr_get_json(res) ==
    IF ~res.exists THEN Ok(EmptyObj) ELSE json_loads(res.text)

\* requests.get is outside the try: a connection error propagates
RemoteZarr_get_json(res) ==
    IF ~res.reachable THEN Raise("ConnectionError")
    ELSE IF res.status_code = 403 THEN Ok(EmptyObj)
    ELSE LET parsed == json_loads(res.text)
         IN IF parsed.ok THEN parsed ELSE Ok(EmptyObj)

get_json(v, res) ==
    IF v = "LocalZarr" THEN LocalZarr_get_json(res) ELSE RemoteZarr_get_json(res)

\* os.path.join(zarr_path, subpath) and f"{zarr_path}{subpath}" agree, since
\* zarr_path ends with "/"
Target(zp, subpath) == zp \o <<subpath>>

Fetched(subpath, r) ==
    [subpath |-> subpath, url |-> Target(zarr_path, subpath),
     ok |-> r.ok, exc |-> r.exc, val |-> r.val]

\* is_zarr with "and" in place of "or"
is_zarr_both(za, zg) == PyTruth(za) /\ PyTruth(zg)

\* "self.zarray or self.zgroup", as a condition
is_zarr(za, zg) == PyTruth(za) \/ PyTruth(zg)

----------------------------------------------------------------------------
(* The channel metadata translator *)

\* int(...)/255 is kept as its numerator: a colour component c stands for
\* c/255, and the greyscale component 1 for 255/255
ColorScale == 255

\* "then": the next step runs on the value, an exception passes through
Bind(r, F(_)) == IF r.ok THEN F(r.val) ELSE r

AllOk(rs) == \A i \in 1..Len(rs) : rs[i].ok

Vals(rs) == [i \in 1..Len(rs) |-> rs[i].val]

\* a comprehension [F(x) for x in xs]: the list, or the first exception
Comprehension(xs, F(_)) ==
    LET rs == [i \in 1..Len(xs) |-> F(xs[i])]
    IN IF AllOk(rs) THEN Ok(Vals(rs))
       ELSE rs[CHOOSE i \in 1..Len(rs) :
                   ~rs[i].ok /\ \A j \in 1..(i - 1) : rs[j].ok]

\* vispy's Colormap([[0, 0, 0], rgb]): the two control colours of the ramp
Colormap(colors) == [colors |-> colors]

\* range(0, 6, 2)
ColorOffsets == <<0, 2, 4>>

\* line 100: [int(ch['color'][i:i+2], 16)/255 for i in range(0, 6, 2)]
ChannelRgb(ch) ==
    Bind(PyGetItem(ch, "color"),
         LAMBDA color :
             Comprehension(ColorOffsets,
                           LAMBDA i : Bind(PySlice(color, i, i + 2), PyIntBase16)))

\* line 101: image_data['rdefs']['model']
DisplayModel(img) ==
    Bind(PyGetItem(img, "rdefs"), LAMBDA rdefs : PyGetItem(rdefs, "model"))

\* the loop body without the greyscale override of lines 101-102
ChannelColormap_no_override(ch, img) ==
    Bind(ChannelRgb(ch),
         LAMBDA rgb :
             Bind(DisplayModel(img),
                  LAMBDA model : Ok(Colormap(<< <<0, 0, 0>>, rgb >>))))

\* one pass of the loop body, lines 100-103
ChannelColormap(ch, img) ==
    Bind(ChannelRgb(ch),
         LAMBDA rgb :
             Bind(DisplayModel(img),
                  LAMBDA model :
                      Ok(Colormap(<< <<0, 0, 0>>,
                                     IF model = Str(S_greyscale)
                                     THEN <<ColorScale, ColorScale, ColorScale>>
                                     ELSE rgb >>))))

\* [ch['window']['start'], ch['window']['end']]
ChannelWindow(ch) ==
    Bind(PyGetItem(ch, "window"),
         LAMBDA w :
             Bind(PyGetItem(w, "start"),
                  LAMBDA s : Bind(PyGetItem(w, "end"), LAMBDA e : Ok(<<s, e>>))))

NoMetadata ==
    [keys |-> {}, colormap |-> <<>>, contrast_limits |-> <<>>,
     name |-> <<>>, visible |-> <<>>]

\* the keys in the order lines 104-107 assign them
MetadataKeys == <<"colormap", "contrast_limits", "name", "visible">>

\* the dict the try block leaves: the assignments made before the first
\* statement that raised
Assigned(stmts) ==
    LET done == CHOOSE k \in 0..Len(stmts) :
                    /\ \A j \in 1..k : stmts[j].ok
                    /\ k = Len(stmts) \/ ~stmts[k + 1].ok
        Value(j) == IF j =< done THEN stmts[j].val ELSE <<>>
    IN [keys |-> {MetadataKeys[j] : j \in 1..done},
        colormap |-> Value(1), contrast_limits |-> Value(2),
        name |-> Value(3), visible |-> Value(4)]

\* lines 97-107 for the channels the loop visits
ChannelMetadata(chs, img) ==
    Assigned(<< Comprehension(chs, LAMBDA ch : ChannelColormap(ch, img)),
                Comprehension(chs, ChannelWindow),
                Comprehension(chs, LAMBDA ch : PyGetItem(ch, "label")),
                Comprehension(chs, LAMBDA ch : PyGetItem(ch, "active")) >>)

\* what "except Exception: pass" leaves of a result
Swallow(r, default) == IF r.ok THEN r.val ELSE default

load_omero_metadata(img) ==
    Swallow(Bind(Bind(PyGetItem(img, "channels"), PyIter),
                 LAMBDA chs : Ok(ChannelMetadata(chs, img))),
            NoMetadata)

----------------------------------------------------------------------------
(* The pyramid resolver and the reader function *)

\* lines 120-121: self.root_attrs['multiscales'][0]['datasets'], then
\* [d['path'] for d in datasets]; the first exception ends it
DatasetPaths(ra) ==
    Bind(PyGetItem(ra, "multiscales"),
         LAMBDA ms :
             Bind(PyGetIndex0(ms),
                  LAMBDA first :
                      Bind(PyGetItem(first, "datasets"),
                           LAMBDA datasets :
                               Bind(PyIter(datasets),
                                    LAMBDA items :
                                        Comprehension(items,
                                            LAMBDA d : PyGetItem(d, "path"))))))

DefaultResolutions == <<Str(<<"0">>)>>

\* the resolver keeping only the first dataset
Resolutions_first_only(ra) ==
    Bind(PyIn("multiscales", S_multiscales, ra),
         LAMBDA has :
             IF has
             THEN Bind(DatasetPaths(ra),
                       LAMBDA ps : Ok(IF Len(ps) > 1 THEN <<ps[1]>> ELSE ps))
             ELSE Ok(DefaultResolutions))

\* the resolver swallowing the exception and keeping the default level
Resolutions_fallback(ra) ==
    Bind(PyIn("multiscales", S_multiscales, ra),
         LAMBDA has :
             IF has THEN Ok(Swallow(DatasetPaths(ra), DefaultResolutions))
             ELSE Ok(DefaultResolutions))

\* lines 116-124: the resolution list, or the exception re-raised
Resolutions(ra) ==
    Bind(PyIn("multiscales", S_multiscales, ra),
         LAMBDA has : IF has THEN DatasetPaths(ra) ELSE Ok(DefaultResolutions))

\* da.from_zarr(url): the lazy array handle, named by where it is opened
da_from_zarr(url) == [url |-> url]

\* the merge with the channel axis counted from the wrong end of (t, c)
WithChannelAxis_axis0(m) ==
    [keys |-> {"channel_axis"} \cup m.keys, channel_axis |-> 0,
     colormap |-> m.colormap, contrast_limits |-> m.contrast_limits,
     name |-> m.name, visible |-> m.visible]

\* {'channel_axis': 1, **metadata}
WithChannelAxis(m) ==
    [keys |-> {"channel_axis"} \cup m.keys, channel_axis |-> 1,
     colormap |-> m.colormap, contrast_limits |-> m.contrast_limits,
     name |-> m.name, visible |-> m.visible]

\* lines 126-135: the levels are opened before the metadata is derived
load_omero_zarr(zp, ra, img) ==
    Bind(Resolutions(ra),
         LAMBDA resolutions :
             Ok([pyramid |-> [i \in 1..Len(resolutions) |->
                                 da_from_zarr(zp \o PyFormat(resolutions[i]))],
                 metadata |-> WithChannelAxis(load_omero_metadata(img))]))

\* a call of the reader function as the host sees it
Outcome(arg, r) ==
    [arg |-> arg, ok |-> r.ok, exc |-> r.exc,
     layers |-> IF r.ok THEN <<r.val>> ELSE <<>>]

\* the reader function opening the levels under its path argument
reader_function_uses_path(arg, zp, ra, img) ==
    Outcome(arg, load_omero_zarr(NormalizePath(FirstPath(arg)), ra, img))

\* the list of LayerData tuples, or the exception; the path argument is
\* reduced to its first item and then not used
reader_function(arg, zp, ra, img) ==
    LET p == FirstPath(arg)
    IN Outcome(arg, load_omero_zarr(zp, ra, img))

----------------------------------------------------------------------------
(* The state machine *)

Pending == [kind |-> "pending", exc |-> ""]
Raised(e) == [kind |-> "raised", exc |-> e]

Init ==
    /\ \E i \in 1..Len(PathPool) : path = PathPool[i]
    /\ \E a \in 1..Len(ZarrayPool), g \in 1..Len(ZgroupPool),
          o \in 1..Len(OmeroPool), z \in 1..Len(ZattrsPool) :
          store = [zarray |-> ZarrayPool[a], zgroup |-> ZgroupPool[g],
                   omero |-> OmeroPool[o], zattrs |-> ZattrsPool[z]]
    /\ pc = "start"
    /\ variant = ""
    /\ zarr_path = <<>>
    /\ zarray = Unset
    /\ zgroup = Unset
    /\ image_data = Unset
    /\ root_attrs = Unset
    /\ fetches = <<>>
    /\ result = Pending
    /\ calls = <<>>

\* lines 50-58 and 67: pick the accessor and normalise its root
napari_get_reader ==
    /\ pc = "start"
    /\ LET p == FirstPath(path)
           parsed == urlparse(p)
       IN IF parsed.scheme \in {"", "file"}
          THEN /\ variant' = "LocalZarr"
               /\ zarr_path' = NormalizePath(parsed.path)
          ELSE /\ variant' = "RemoteZarr"
               /\ zarr_path' = NormalizePath(p)
    /\ pc' = "zarray"
    /\ UNCHANGED <<store, path, zarray, zgroup, image_data, root_attrs,
                   fetches, result, calls>>

\* line 68
init_zarray ==
    /\ pc = "zarray"
    /\ LET r == get_json(variant, store.zarray)
       IN /\ fetches' = Append(fetches, Fetched(".zarray", r))
          /\ IF r.ok
             THEN /\ zarray' = r.val
                  /\ pc' = "zgroup"
                  /\ result' = result
             ELSE /\ zarray' = zarray
                  /\ pc' = "raised"
                  /\ result' = Raised(r.exc)
    /\ UNCHANGED <<store, path, variant, zarr_path, zgroup, image_data,
                   root_attrs, calls>>

\* line 69
init_zgroup ==
    /\ pc = "zgroup"
    /\ LET r == get_json(variant, store.zgroup)
       IN /\ fetches' = Append(fetches, Fetched(".zgroup", r))
          /\ IF r.ok
             THEN /\ zgroup' = r.val
                  /\ pc' = "is_zarr"
                  /\ result' = result
             ELSE /\ zgroup' = zgroup
                  /\ pc' = "raised"
                  /\ result' = Raised(r.exc)
    /\ UNCHANGED <<store, path, variant, zarr_path, zarray, image_data,
                   root_attrs, calls>>

\* the constructor fetching all four documents whatever is_zarr says
init_is_zarr_eager ==
    /\ pc = "is_zarr"
    /\ pc' = "omero"
    /\ UNCHANGED <<store, path, variant, zarr_path, zarray, zgroup, image_data,
                   root_attrs, fetches, result, calls>>

\* line 70
init_is_zarr ==
    /\ pc = "is_zarr"
    /\ pc' = IF is_zarr(zarray, zgroup) THEN "omero" ELSE "return"
    /\ UNCHANGED <<store, path, variant, zarr_path, zarray, zgroup, image_data,
                   root_attrs, fetches, result, calls>>

\* line 71
init_image_data ==
    /\ pc = "omero"
    /\ LET r == get_json(variant, store.omero)
       IN /\ fetches' = Append(fetches, Fetched("omero.json", r))
          /\ IF r.ok
             THEN /\ image_data' = r.val
                  /\ pc' = "zattrs"
                  /\ result' = result
             ELSE /\ image_data' = image_data
                  /\ pc' = "raised"
                  /\ result' = Raised(r.exc)
    /\ UNCHANGED <<store, path, variant, zarr_path, zarray, zgroup,
                   root_attrs, calls>>

\* line 72
init_root_attrs ==
    /\ pc = "zattrs"
    /\ LET r == get_json(variant, store.zattrs)
       IN /\ fetches' = Append(fetches, Fetched(".zattrs", r))
          /\ IF r.ok
             THEN /\ root_attrs' = r.val
                  /\ pc' = "return"
                  /\ result' = result
             ELSE /\ root_attrs' = root_attrs
                  /\ pc' = "raised"
                  /\ result' = Raised(r.exc)
    /\ UNCHANGED <<store, path, variant, zarr_path, zarray, zgroup,
                   image_data, calls>>

\* lines 80-83
get_reader_function(za, zg) ==
    IF ~is_zarr(za, zg) THEN Raised("not a zarr")
    ELSE [kind |-> "reader", exc |-> ""]

\* lines 60-61: falling off the end returns None
napari_get_reader_return ==
    /\ pc = "return"
    /\ result' = IF is_zarr(zarray, zgroup)
                 THEN get_reader_function(zarray, zgroup)
                 ELSE [kind |-> "None", exc |-> ""]
    /\ pc' = IF result'.kind = "raised" THEN "raised" ELSE "done"
    /\ UNCHANGED <<store, path, variant, zarr_path, zarray, zgroup, image_data,
                   root_attrs, fetches, calls>>

\* the host calls the reader function it was handed
call_reader_function ==
    /\ pc = "done"
    /\ result.kind = "reader"
    /\ Len(calls) < MaxCalls
    /\ \E i \in 1..Len(CallArgPool) :
          calls' = Append(calls, reader_function(CallArgPool[i], zarr_path,
                                                 root_attrs, image_data))
    /\ UNCHANGED <<store, path, pc, variant, zarr_path, zarray, zgroup,
                   image_data, root_attrs, fetches, result>>

Next ==
    \/ napari_get_reader
    \/ init_zarray
    \/ init_zgroup
    \/ init_is_zarr
    \/ init_image_data
    \/ init_root_attrs
    \/ napari_get_reader_return
    \/ call_reader_function

Spec == Init /\ [][Next]_vars

----------------------------------------------------------------------------
(* Vocabulary of the properties, stated on the documents themselves *)

Terminal == pc \in {"done", "raised"}

IsLocal == variant = "LocalZarr"
IsRemote == variant = "RemoteZarr"

\* a fetched descriptor that is absent (recovered as {}) or empty
DescriptorEmpty(x) == x.t \in {"obj", "arr"} /\ Len(x.v) = 0

DescriptorsFetched == zarray # Unset /\ zgroup # Unset

ValidStore == ~(DescriptorEmpty(zarray) /\ DescriptorEmpty(zgroup))

StoreOf(subpath) ==
    CASE subpath = ".zarray" -> store.zarray
      [] subpath = ".zgroup" -> store.zgroup
      [] subpath = "omero.json" -> store.omero
      [] OTHER -> store.zattrs

FieldOf(subpath) ==
    CASE subpath = ".zarray" -> zarray
      [] subpath = ".zgroup" -> zgroup
      [] subpath = "omero.json" -> image_data
      [] OTHER -> root_attrs

FetchOrder == <<".zarray", ".zgroup", "omero.json", ".zattrs">>

Pyramid(c) == c.layers[1].pyramid
Metadata(c) == c.layers[1].metadata
DisplayKeys == {"colormap", "contrast_limits", "name", "visible"}

HasMultiscalesKey(ra) == ra.t = "obj" /\ HasKey(ra, "multiscales")
NoMultiscalesKey(ra) == ra.t = "obj" /\ ~HasKey(ra, "multiscales")

\* multiscales[0].datasets is there, a list of mappings that each hold a
\* path (a string, or a number, which the f-string prints)
WellFormedMultiscales(ra) ==
    /\ HasMultiscalesKey(ra)
    /\ LET ms == Lookup(ra, "multiscales")
       IN /\ ms.t = "arr" /\ Len(ms.v) >= 1
          /\ ms.v[1].t = "obj" /\ HasKey(ms.v[1], "datasets")
          /\ LET ds == Lookup(ms.v[1], "datasets")
             IN /\ ds.t = "arr"
                /\ \A i \in 1..Len(ds.v) :
                      /\ ds.v[i].t = "obj" /\ HasKey(ds.v[i], "path")
                      /\ Lookup(ds.v[i], "path").t \in {"str", "num"}

DatasetsOf(ra) == Lookup(Lookup(ra, "multiscales").v[1], "datasets")

PathText(x) == IF x.t = "str" THEN x.v ELSE <<ToString(x.v[1])>>

\* multiscales is empty or not indexable at 0, its first entry holds no
\* datasets, the datasets cannot be iterated, or an entry is no mapping or
\* holds no path
MalformedMultiscales(ra) ==
    /\ HasMultiscalesKey(ra)
    /\ LET ms == Lookup(ra, "multiscales")
       IN \/ ~(ms.t \in {"arr", "str"} /\ Len(ms.v) >= 1)
          \/ ms.t = "str"
          \/ /\ ms.t = "arr"
             /\ \/ ~(ms.v[1].t = "obj" /\ HasKey(ms.v[1], "datasets"))
                \/ LET ds == Lookup(ms.v[1], "datasets")
                   IN \/ ds.t \in {"null", "num", "bool"}
                      \/ /\ ds.t = "arr"
                         /\ \E i \in 1..Len(ds.v) :
                               ~(ds.v[i].t = "obj" /\ HasKey(ds.v[i], "path"))
                      \/ ds.t \in {"obj", "str"} /\ PyTruth(ds)

IsHexColor(x) ==
    x.t = "str" /\ Len(x.v) = 6 /\ \A i \in 1..6 : IsHexDigit(x.v[i])

WellFormedChannel(ch) ==
    /\ ch.t = "obj"
    /\ HasKey(ch, "color") /\ IsHexColor(Lookup(ch, "color"))
    /\ HasKey(ch, "window") /\ Lookup(ch, "window").t = "obj"
    /\ HasKey(Lookup(ch, "window"), "start")
    /\ HasKey(Lookup(ch, "window"), "end")
    /\ HasKey(ch, "label")
    /\ HasKey(ch, "active")

WellFormedOmero(img) ==
    /\ img.t = "obj" /\ HasKey(img, "channels")
    /\ LET chs == Lookup(img, "channels")
       IN /\ chs.t = "arr"
          /\ \A i \in 1..Len(chs.v) : WellFormedChannel(chs.v[i])
          /\ Len(chs.v) > 0 =>
                /\ HasKey(img, "rdefs") /\ Lookup(img, "rdefs").t = "obj"
                /\ HasKey(Lookup(img, "rdefs"), "model")

ChannelsOf(img) == Lookup(img, "channels").v

\* the byte written by the two hex digits at offset off
ByteAt(chars, off) ==
    16 * HexDigitValue(chars[off + 1]) + HexDigitValue(chars[off + 2])

IsGreyscale(img) == Lookup(Lookup(img, "rdefs"), "model") = Str(S_greyscale)

ExpectedRamp(img, ch) ==
    LET c == Lookup(ch, "color").v
    IN [colors |-> << <<0, 0, 0>>,
                      IF IsGreyscale(img) THEN <<255, 255, 255>>
                      ELSE <<ByteAt(c, 0), ByteAt(c, 2), ByteAt(c, 4)>> >>]

\* the document is missing: no local file, or a remote 403 or 404
MissingDocument(res) ==
    IF IsLocal THEN ~res.exists
    ELSE res.reachable /\ res.status_code \in {403, 404}

\* some step of the derivation in load_omero_metadata raises
DerivationFails(img) ==
    LET chs == Bind(PyGetItem(img, "channels"), PyIter)
    IN \/ ~chs.ok
       \/ \E i \in 1..Len(chs.val) :
             \/ ~ChannelColormap(chs.val[i], img).ok
             \/ ~ChannelWindow(chs.val[i]).ok
             \/ ~PyGetItem(chs.val[i], "label").ok
             \/ ~PyGetItem(chs.val[i], "active").ok

----------------------------------------------------------------------------
(* C1 *)

\* C1, as stated: for every path and every store content, once both
\* descriptors are fetched napari_get_reader ends returning None exactly
\* when both are absent or empty, ends returning the reader function
\* whenever one is present and non-empty, and never raises "not a zarr".
C1_AsStated ==
    (Terminal /\ DescriptorsFetched) =>
        /\ result.kind = "None" <=> ~ValidStore
        /\ ValidStore => result.kind = "reader"
        /\ result.exc # "not a zarr"

\* C1, amended: whenever no metadata fetch raises, napari_get_reader returns
\* None exactly when both fetched descriptors are absent or empty and the
\* reader function exactly when one is present and non-empty; it raises only
\* the exception of the fetch that raised, never "not a zarr".
C1_ReaderIffValid ==
    /\ result.exc # "not a zarr"
    /\ pc = "done" =>
          /\ DescriptorsFetched
          /\ result.kind = "None" <=> ~ValidStore
          /\ result.kind = "reader" <=> ValidStore
    /\ pc = "raised" =>
          /\ Len(fetches) >= 1
          /\ ~fetches[Len(fetches)].ok
          /\ result = Raised(fetches[Len(fetches)].exc)

\* a reader handed out for a store that has a group descriptor only, reached
\* through a list argument
C1_Witness ==
    /\ pc = "done"
    /\ result.kind = "reader"
    /\ path.is_list
    /\ DescriptorEmpty(zarray)
    /\ ~DescriptorEmpty(zgroup)

----------------------------------------------------------------------------
(* C2 *)

\* C2: every call of the reader function on root attributes that hold a
\* well-formed multiscales key opens one level per entry of
\* multiscales[0].datasets, level i at zarr_path + datasets[i].path, in the
\* order of the datasets; on root attributes without the key it opens the
\* single level zarr_path + "0".
C2_PyramidFollowsDatasets ==
    \A n \in 1..Len(calls) :
        LET c == calls[n]
        IN /\ WellFormedMultiscales(root_attrs) =>
                 /\ c.ok /\ Len(c.layers) = 1
                 /\ Len(Pyramid(c)) = Len(DatasetsOf(root_attrs).v)
                 /\ \A i \in 1..Len(Pyramid(c)) :
                       Pyramid(c)[i].url =
                           zarr_path \o
                           PathText(Lookup(DatasetsOf(root_attrs).v[i], "path"))
           /\ NoMultiscalesKey(root_attrs) =>
                 /\ c.ok /\ Len(c.layers) = 1
                 /\ Len(Pyramid(c)) = 1
                 /\ Pyramid(c)[1].url = zarr_path \o <<"0">>

\* two datasets "0" and "1" opened in that order under the store root
C2_Witness ==
    /\ Len(calls) >= 1
    /\ HasMultiscalesKey(root_attrs)
    /\ calls[1].ok
    /\ Len(Pyramid(calls[1])) = 2
    /\ Pyramid(calls[1])[1].url = zarr_path \o <<"0">>
    /\ Pyramid(calls[1])[2].url = zarr_path \o <<"1">>
    /\ zarr_path[Len(zarr_path)] = "/"

----------------------------------------------------------------------------
(* C3 *)

\* C3: for a well-formed channel descriptor set with n channels the metadata
\* holds colormap, contrast_limits, name and visible, each of length n and
\* aligned with the channels: colormap[i] runs from black to the bytes of the
\* colour's hex pairs over 255, or to (1, 1, 1) when rdefs.model is
\* "greyscale"; contrast_limits[i] = [window.start, window.end];
\* name[i] = label; visible[i] = active.
C3_MetadataAlignedWithChannels ==
    \A n \in 1..Len(calls) :
        (calls[n].ok /\ WellFormedOmero(image_data)) =>
            LET m == Metadata(calls[n])
                chs == ChannelsOf(image_data)
            IN /\ DisplayKeys \subseteq m.keys
               /\ Len(m.colormap) = Len(chs)
               /\ Len(m.contrast_limits) = Len(chs)
               /\ Len(m.name) = Len(chs)
               /\ Len(m.visible) = Len(chs)
               /\ \A i \in 1..Len(chs) :
                     /\ m.colormap[i] = ExpectedRamp(image_data, chs[i])
                     /\ m.contrast_limits[i] =
                           << Lookup(Lookup(chs[i], "window"), "start"),
                              Lookup(Lookup(chs[i], "window"), "end") >>
                     /\ m.name[i] = Lookup(chs[i], "label")
                     /\ m.visible[i] = Lookup(chs[i], "active")

\* two colour channels: FF0000 gives (255, 0, 0)/255, 0080ff (0, 128, 255)/255
C3_Witness ==
    /\ Len(calls) >= 1
    /\ calls[1].ok
    /\ WellFormedOmero(image_data)
    /\ Len(Metadata(calls[1]).colormap) = 2
    /\ Metadata(calls[1]).colormap[1].colors[2] = <<255, 0, 0>>
    /\ Metadata(calls[1]).colormap[2].colors[2] = <<0, 128, 255>>
    /\ Metadata(calls[1]).visible = <<Bool(TRUE), Bool(FALSE)>>

\* the greyscale case of C3: both ramps end in white
C3_WitnessGreyscale ==
    /\ Len(calls) >= 1
    /\ calls[1].ok
    /\ WellFormedOmero(image_data)
    /\ Len(Metadata(calls[1]).colormap) = 2
    /\ \A i \in 1..2 : Metadata(calls[1]).colormap[i].colors[2] = <<255, 255, 255>>

----------------------------------------------------------------------------
(* C4 *)

\* omero.json is absent and was fetched as the empty mapping
OmeroAbsent ==
    /\ image_data = EmptyObj
    /\ IF IsLocal THEN ~store.omero.exists ELSE store.omero.status_code = 403

----------------------------------------------------------------------------
(* C5 *)

\* C5, as stated: every fetch of a missing document (no local file, a
\* remote 403, a remote 404 with any body) returns the empty mapping without
\* raising.
C5_AsStated ==
    \A i \in 1..Len(fetches) :
        MissingDocument(StoreOf(fetches[i].subpath)) =>
            /\ fetches[i].ok
            /\ fetches[i].val = EmptyObj

----------------------------------------------------------------------------
(* C6 *)

EntryCount(x) == IF x.t = "obj" THEN Len(x.k) ELSE Len(x.v)

----------------------------------------------------------------------------
(* C7 *)

\* C7, as stated: whenever a step of deriving the channel metadata fails,
\* whichever channel or field it is, the metadata of the reader function is
\* exactly {channel_axis: 1}.
C7_AsStated ==
    \A n \in 1..Len(calls) :
        (calls[n].ok /\ DerivationFails(image_data)) =>
            Metadata(calls[n]).keys = {"channel_axis"}

----------------------------------------------------------------------------
(* C8 *)

----------------------------------------------------------------------------
(* C9 *)

IsPrefix(s, t) == Len(s) =< Len(t) /\ \A i \in 1..Len(s) : s[i] = t[i]

FetchedNames == [i \in 1..Len(fetches) |-> fetches[i].subpath]

\* what C9 says of every execution, whether or not a fetch raises
C9_Ordering ==
    /\ IsPrefix(FetchedNames, FetchOrder)
    /\ Len(fetches) > 2 => DescriptorsFetched /\ ValidStore
    /\ result.kind = "reader" =>
          Len(fetches) = 4 /\ image_data # Unset /\ root_attrs # Unset
    /\ Len(calls) > 0 => result.kind = "reader"

\* C9, as stated: documents are fetched in the order .zarray, .zgroup,
\* omero.json, .zattrs, each at most once, the last two only for a valid
\* store; an invalid store causes exactly two fetches and a valid store
\* exactly four; calls of the reader function fetch nothing, and the reader
\* function is handed out only after all four fetches.
C9_AsStated ==
    /\ C9_Ordering
    /\ (Terminal /\ DescriptorsFetched) =>
          Len(fetches) = IF ValidStore THEN 4 ELSE 2

\* C9, amended: as stated, except that a valid store causes exactly four
\* fetches only when construction completes; a fetch that raises is the last
\* one, so a valid store whose omero.json or .zattrs fetch raises causes
\* three or four.
C9_FetchOrderAndCount ==
    /\ C9_Ordering
    /\ (pc = "done" /\ ValidStore) => Len(fetches) = 4
    /\ (Terminal /\ DescriptorsFetched /\ ~ValidStore) => Len(fetches) = 2
    /\ \A i \in 1..Len(fetches) : ~fetches[i].ok => i = Len(fetches) /\ pc = "raised"
    /\ (pc = "raised" /\ DescriptorsFetched) =>
          ValidStore /\ Len(fetches) \in {3, 4}

\* a reader function called as often as the host may, after exactly four
\* fetches
C9_Witness ==
    /\ Len(calls) = MaxCalls
    /\ Len(fetches) = 4
    /\ FetchedNames = FetchOrder

----------------------------------------------------------------------------
(* C10 *)

\* C10: a remote answer, other than a 403, whose body is not JSON is fetched
\* as the empty mapping without raising; a local file that exists and is not
\* JSON makes the fetch raise, it is the last fetch, and napari_get_reader
\* ends with that error, returning neither the reader function nor None.
C10_MalformedJsonAsymmetry ==
    \A i \in 1..Len(fetches) :
        LET res == StoreOf(fetches[i].subpath)
        IN /\ (IsRemote /\ res.reachable /\ res.status_code # 403
                 /\ ~res.text.is_json) =>
                 /\ fetches[i].ok
                 /\ fetches[i].val = EmptyObj
                 /\ FieldOf(fetches[i].subpath) = EmptyObj
           /\ (IsLocal /\ res.exists /\ ~res.text.is_json) =>
                 /\ ~fetches[i].ok
                 /\ i = Len(fetches)
                 /\ pc = "raised"
                 /\ result = Raised("JSONDecodeError")
                 /\ calls = <<>>

\* a local store with a good descriptor whose omero.json is not JSON
C10_Witness ==
    /\ IsLocal
    /\ Len(fetches) = 3
    /\ store.omero.exists /\ ~store.omero.text.is_json
    /\ result = Raised("JSONDecodeError")

\* the remote side of C10: the same broken omero.json, and a reader
C10_WitnessRemote ==
    /\ IsRemote
    /\ store.omero.status_code = 200 /\ ~store.omero.text.is_json
    /\ image_data = EmptyObj
    /\ result.kind = "reader"

====
